---- MODULE Spec2Model ----
(***************************************************************************)
(* Binary count sketch (src/src/lib.rs) and the peeling decoder of the     *)
(* command-line driver (src/src/main.rs).                                  *)
(*                                                                         *)
(* A 64-bit word is modelled as the set of its set bit positions (a subset *)
(* of 0..63), so that XOR is symmetric difference and `1 << k` is {k}.     *)
(* Two specifications share the variables:                                 *)
(*   Spec      the library API driven by arbitrary calls on two sketches,  *)
(*   MainSpec  the control flow of main().                                 *)
(***************************************************************************)
EXTENDS Integers, Sequences, FiniteSets, TLC

(* ------------------------------ bounds --------------------------------- *)
MaxLevel == 1
MaxHist == 3
MaxCommon == 1
MaxUncommon == 1
MaxSamples == 2

(* -------------------------- program constants -------------------------- *)
WordBits == 64
NumCodes == 15

VARIABLES
    sk,         \* sk[1] = sketch1, sk[2] = sketch2: the two BinaryCountSketch values
    hist,       \* history: the items toggled into each sketch since it was empty
    pure,       \* history: TRUE while sk[k] is a value of new() changed by toggle only
    last,       \* the last library call: its name, receiver, arguments, result, pre-state
    panicked,   \* TRUE once the process has aborted (a panic)
    pc,         \* main(): where control is ("lib" when the library is driven directly)
    args,       \* main(): the parsed command-line arguments
    common,     \* main(): the items toggled into both sketches
    extra1,     \* main(): the items toggled into sketch1 only
    stats,      \* main(): (fpos, fneg) of estimate_stats
    candidates, \* main(): the items still to decode
    found,      \* main(): the items decoded so far
    tmp_threshold,  \* main(): the current acceptance threshold
    not_found,  \* main(): the candidates the current round has rejected
    scores,     \* main(): the vector decode() returned for the current round
    idx         \* main(): the position of the round's for loop in candidates (from 1)

libVars == <<sk, hist, pure, last>>
mainVars == <<pc, args, common, extra1, stats, candidates, found, tmp_threshold,
              not_found, scores, idx>>
peelVars == <<candidates, found, tmp_threshold, not_found, scores, idx>>
vars == <<sk, hist, pure, last, panicked, pc, args, common, extra1, stats,
          candidates, found, tmp_threshold, not_found, scores, idx>>

(* ------------------------------- items --------------------------------- *)
\* TestItem: a vector of NumCodes addresses; MkItem(a, s) holds a, a+s, a+2s, ...
MkItem(a, s) == [i \in 1..NumCodes |-> a + (i - 1) * s]

\* The items the calls draw from, in a fixed order: addresses 0, 1, 2, ... and
\* 1, 65, 129, ... They share bit 1; the addresses of the second all coincide in
\* a sketch of one word, and its first and third coincide in one of two words.
ItemSeq == << MkItem(0, 1), MkItem(1, 64) >>
Items == {ItemSeq[n] : n \in 1..Len(ItemSeq)}

\* impl Item for TestItem: get_code(i) = self.points[i]
get_code(v, i) == v[i + 1]

(* ------------------------------- words --------------------------------- *)
XorWord(a, b) == (a \ b) \cup (b \ a)

ZeroWords(n) == [i \in 1..n |-> {}]

\* base_length << level
Shl(base_length, level) == base_length * (2 ^ level)

(* ------------------------------ the sketch ------------------------------ *)
new(base_length, level, points) ==
    [ base_length |-> base_length,
      level       |-> level,
      points      |-> points,
      words       |-> ZeroWords(Shl(base_length, level)) ]

bits(s) == Len(s.words) * WordBits

\* toggle_slot with |= in place of ^=
toggle_slot_or(words, v, i) ==
    LET l == Len(words) * WordBits
        b == get_code(v, i) % l
    IN  [words EXCEPT ![(b \div WordBits) + 1] = @ \cup {b % WordBits}]

\* the body of toggle's loop for slot i: words[b / 64] ^= 1 << (b % 64)
toggle_slot(words, v, i) ==
    LET l == Len(words) * WordBits
        b == get_code(v, i) % l
    IN  [words EXCEPT ![(b \div WordBits) + 1] = XorWord(@, {b % WordBits})]

RECURSIVE toggle_from(_, _, _, _)
toggle_from(words, v, i, points) ==
    IF i >= points THEN words
    ELSE toggle_from(toggle_slot(words, v, i), v, i + 1, points)

\* toggle(&mut self, v): the sketch after the call
toggle(s, v) == [s EXCEPT !.words = toggle_from(s.words, v, 0, s.points)]

\* toggle and check compute `% l` with l = 0 on a sketch without words
rem_panics(s) == s.points > 0 /\ Len(s.words) = 0

\* check_slot with the address taken modulo the word count, not the bit count
check_slot_words(s, v, i) ==
    LET l == Len(s.words)
        b == get_code(v, i) % l
    IN  IF 0 \in s.words[b + 1] THEN 1 ELSE 0

\* the closure of check for slot i: 1 if the addressed bit is set, else 0
check_slot(s, v, i) ==
    LET l == Len(s.words)
        b == get_code(v, i) % (l * WordBits)
    IN  IF (b % WordBits) \in s.words[(b \div WordBits) + 1] THEN 1 ELSE 0

RECURSIVE check_from(_, _, _)
check_from(s, v, i) ==
    IF i >= s.points THEN 0
    ELSE check_slot(s, v, i) + check_from(s, v, i + 1)

check(s, v) == check_from(s, v, 0)

\* decode returning the scores in the reverse order
decode_rev(s, items) == [k \in 1..Len(items) |-> check(s, items[Len(items) + 1 - k])]

\* decode(&self, values): the scores of the values, in their order
decode(s, items) == [k \in 1..Len(items) |-> check(s, items[k])]

\* estimate_stats with the guard threshold < points
estimate_stats_lt(s, probes, threshold) ==
    IF ~(threshold < s.points)
    THEN [err |-> "Incorrect threshold", val |-> <<0, 0>>]
    ELSE [err |-> "",
          val |-> << Cardinality({n \in 1..Len(probes) : check(s, probes[n]) >= threshold}),
                     Cardinality({n \in 1..Len(probes) :
                                     s.points - check(s, probes[n]) < threshold}) >>]

\* estimate_stats(&self, samples, threshold) with the random probes it draws given
\* as the sequence probes (of length samples): Err(details) or Ok((false_pos, false_neg))
estimate_stats(s, probes, threshold) ==
    IF ~(threshold <= s.points)
    THEN [err |-> "Incorrect threshold", val |-> <<0, 0>>]
    ELSE [err |-> "",
          val |-> << Cardinality({n \in 1..Len(probes) : check(s, probes[n]) >= threshold}),
                     Cardinality({n \in 1..Len(probes) :
                                     s.points - check(s, probes[n]) < threshold}) >>]

\* level_down's loop: new_words[i % l] ^= words[i], for i = from..len-1 (0-based)
RECURSIVE fold_from(_, _, _)
fold_from(new_words, words, from) ==
    IF from >= Len(words) THEN new_words
    ELSE LET l == Len(new_words)
         IN  fold_from([new_words EXCEPT ![(from % l) + 1] = XorWord(@, words[from + 1])],
                       words, from + 1)

\* level_down with the guard new_level <= self.level
level_down_le(s, new_level) ==
    IF ~(new_level <= s.level)
    THEN [err |-> "Incorrect level", val |-> s]
    ELSE [err |-> "",
          val |-> [ base_length |-> s.base_length,
                    level       |-> new_level,
                    points      |-> s.points,
                    words       |-> fold_from(ZeroWords(Shl(s.base_length, new_level)),
                                              s.words, 0) ]]

\* level_down returning the receiver's level with the folded words
level_down_keep(s, new_level) ==
    IF ~(new_level < s.level)
    THEN [err |-> "Incorrect level", val |-> s]
    ELSE [err |-> "",
          val |-> [ base_length |-> s.base_length,
                    level       |-> s.level,
                    points      |-> s.points,
                    words       |-> fold_from(ZeroWords(Shl(s.base_length, new_level)),
                                              s.words, 0) ]]

\* level_down that keeps all the words under the new level
level_down_wide(s, new_level) ==
    IF ~(new_level < s.level)
    THEN [err |-> "Incorrect level", val |-> s]
    ELSE [err |-> "", val |-> [s EXCEPT !.level = new_level]]

\* level_down that keeps the first words and drops the rest
level_down_trunc(s, new_level) ==
    IF ~(new_level < s.level)
    THEN [err |-> "Incorrect level", val |-> s]
    ELSE [err |-> "",
          val |-> [ base_length |-> s.base_length,
                    level       |-> new_level,
                    points      |-> s.points,
                    words       |-> SubSeq(s.words, 1, Shl(s.base_length, new_level)) ]]

\* level_down(&self, new_level): Err(details) or Ok(the new sketch)
level_down(s, new_level) ==
    IF ~(new_level < s.level)
    THEN [err |-> "Incorrect level", val |-> s]
    ELSE [err |-> "",
          val |-> [ base_length |-> s.base_length,
                    level       |-> new_level,
                    points      |-> s.points,
                    words       |-> fold_from(ZeroWords(Shl(s.base_length, new_level)),
                                              s.words, 0) ]]

\* xor_words with |= in place of ^=
or_words(mine, theirs) ==
    [i \in 1..Len(mine) |-> IF i <= Len(theirs) THEN mine[i] \cup theirs[i] ELSE mine[i]]

\* diff_with's loop: self.words[i] ^= other.words[i]
xor_words(mine, theirs) ==
    [i \in 1..Len(mine) |-> IF i <= Len(theirs) THEN XorWord(mine[i], theirs[i]) ELSE mine[i]]

\* diff_with comparing the levels before the base lengths
diff_with_level_first(self, other) ==
    IF ~(self.level = other.level)
    THEN [err |-> "Incorrect level", val |-> self]
    ELSE IF ~(self.base_length = other.base_length)
    THEN [err |-> "Incorrect base length", val |-> self]
    ELSE IF ~(self.points = other.points)
    THEN [err |-> "Incorrect points", val |-> self]
    ELSE IF ~(Len(self.words) = Len(other.words))
    THEN [err |-> "Incorrect words length", val |-> self]
    ELSE [err |-> "", val |-> [self EXCEPT !.words = xor_words(self.words, other.words)]]

\* diff_with that has XORed the words when it finds the points to differ
diff_with_late_points(self, other) ==
    IF ~(self.base_length = other.base_length)
    THEN [err |-> "Incorrect base length", val |-> self]
    ELSE IF ~(self.level = other.level)
    THEN [err |-> "Incorrect level", val |-> self]
    ELSE IF ~(Len(self.words) = Len(other.words))
    THEN [err |-> "Incorrect words length", val |-> self]
    ELSE IF ~(self.points = other.points)
    THEN [err |-> "Incorrect points",
          val |-> [self EXCEPT !.words = xor_words(self.words, other.words)]]
    ELSE [err |-> "", val |-> [self EXCEPT !.words = xor_words(self.words, other.words)]]

\* diff_with(&mut self, other): Err(details) with self as it was, or Ok with self changed
diff_with(self, other) ==
    IF ~(self.base_length = other.base_length)
    THEN [err |-> "Incorrect base length", val |-> self]
    ELSE IF ~(self.level = other.level)
    THEN [err |-> "Incorrect level", val |-> self]
    ELSE IF ~(self.points = other.points)
    THEN [err |-> "Incorrect points", val |-> self]
    ELSE IF ~(Len(self.words) = Len(other.words))
    THEN [err |-> "Incorrect words length", val |-> self]
    ELSE [err |-> "", val |-> [self EXCEPT !.words = xor_words(self.words, other.words)]]

(* --------------------------- the library calls -------------------------- *)
Other(k) == 3 - k

NoCall == [op |-> "none", self |-> 0, item |-> <<>>, new_level |-> 0,
           err |-> "", ret |-> 0, pre |-> <<>>, preh |-> <<>>, prepure |-> <<>>,
           twice |-> FALSE, pre2 |-> <<>>, items |-> <<>>, threshold |-> 0]

\* The record of a call made in the current state. twice: the call before it was
\* the same toggle (same receiver, same item); pre2 is then the state before that.
\* items: the items decode was given, or the probes estimate_stats drew.
Call(op, k, item, new_level, err, ret) ==
    LET twice == op = "toggle" /\ last.op = "toggle" /\ last.self = k /\ last.item = item
    IN  [op |-> op, self |-> k, item |-> item, new_level |-> new_level,
         err |-> err, ret |-> ret, pre |-> sk, preh |-> hist, prepure |-> pure,
         twice |-> twice, pre2 |-> IF twice THEN last.pre ELSE <<>>,
         items |-> <<>>, threshold |-> 0]

NoArgs == [base_lenth |-> 0, level |-> 0, point |-> 0, common_num |-> 0,
           uncommon_num |-> 0, samples_num |-> 0, threshold |-> 0]

BaseLengths == {1, 3}
Levels == 0..MaxLevel
PointCounts == {1, 3}

\* the probe sequences of length n that estimate_stats may draw
SeqsOf(n) == [1..n -> Items]

\* the item sequences decode is called with: empty, single, with repeats
DecodeLens == 0..2
DecodeSeqs == UNION {SeqsOf(n) : n \in DecodeLens}

Init ==
    /\ \E b1 \in BaseLengths, l1 \in Levels, p1 \in PointCounts,
          b2 \in BaseLengths, l2 \in Levels, p2 \in PointCounts :
          sk = << new(b1, l1, p1), new(b2, l2, p2) >>
    /\ hist = << <<>>, <<>> >>
    /\ pure = << TRUE, TRUE >>
    /\ last = NoCall
    /\ panicked = FALSE
    /\ pc = "lib"
    /\ args = NoArgs
    /\ common = <<>> /\ extra1 = <<>> /\ stats = <<0, 0>>
    /\ candidates = <<>> /\ found = <<>> /\ tmp_threshold = 0
    /\ not_found = <<>> /\ scores = <<>> /\ idx = 0

\* sk[k].toggle(&v)
ToggleItem(k, v) ==
    /\ ~panicked
    /\ ~rem_panics(sk[k])
    /\ Len(hist[1]) + Len(hist[2]) < MaxHist
    /\ sk' = [sk EXCEPT ![k] = toggle(sk[k], v)]
    /\ hist' = [hist EXCEPT ![k] = Append(@, v)]
    /\ last' = Call("toggle", k, v, 0, "", 0)
    /\ UNCHANGED <<pure, panicked, mainVars>>

\* sk[k].check(&v)
CheckItem(k, v) ==
    /\ ~panicked
    /\ ~rem_panics(sk[k])
    /\ last' = Call("check", k, v, 0, "", check(sk[k], v))
    /\ UNCHANGED <<sk, hist, pure, panicked, mainVars>>

\* sk[k].decode(&items)
DecodeItems(k, items) ==
    /\ ~panicked
    /\ ~rem_panics(sk[k])
    /\ last' = [Call("decode", k, <<>>, 0, "", decode(sk[k], items)) EXCEPT !.items = items]
    /\ UNCHANGED <<sk, hist, pure, panicked, mainVars>>

\* sk[k].diff_with(&sk[Other(k)])
DiffWith(k) ==
    LET r == diff_with(sk[k], sk[Other(k)]) IN
    /\ ~panicked
    /\ Len(hist[k]) + Len(hist[Other(k)]) <= MaxHist
    /\ sk' = [sk EXCEPT ![k] = r.val]
    /\ hist' = IF r.err = "" THEN [hist EXCEPT ![k] = @ \o hist[Other(k)]] ELSE hist
    /\ pure' = IF r.err = "" THEN [pure EXCEPT ![k] = FALSE] ELSE pure
    /\ last' = Call("diff_with", k, <<>>, 0, r.err, 0)
    /\ UNCHANGED <<panicked, mainVars>>

\* sk[Other(k)] = sk[k].level_down(new_level)?
LevelDown(k, new_level) ==
    LET r == level_down(sk[k], new_level) IN
    /\ ~panicked
    /\ sk' = IF r.err = "" THEN [sk EXCEPT ![Other(k)] = r.val] ELSE sk
    /\ hist' = IF r.err = "" THEN [hist EXCEPT ![Other(k)] = hist[k]] ELSE hist
    /\ pure' = IF r.err = "" THEN [pure EXCEPT ![Other(k)] = FALSE] ELSE pure
    /\ last' = Call("level_down", k, <<>>, new_level, r.err, 0)
    /\ UNCHANGED <<panicked, mainVars>>

Next ==
    \/ \E k \in 1..2, v \in Items : ToggleItem(k, v)
    \/ \E k \in 1..2, v \in Items : CheckItem(k, v)
    \/ \E k \in 1..2 : DecodeItems(k, ItemSeq)
    \/ \E k \in 1..2 : DiffWith(k)
    \/ \E k \in 1..2, new_level \in Levels : LevelDown(k, new_level)

Spec == Init /\ [][Next]_vars

(* ---------------- the library's queries on one sketch ------------------- *)
\* Two sketches constructed with the same arguments, as main() and the tests
\* construct them.
StatsInit ==
    /\ \E b \in BaseLengths, l \in Levels, p \in PointCounts :
          sk = << new(b, l, p), new(b, l, p) >>
    /\ hist = << <<>>, <<>> >>
    /\ pure = << TRUE, TRUE >>
    /\ last = NoCall
    /\ panicked = FALSE
    /\ pc = "lib"
    /\ args = NoArgs
    /\ common = <<>> /\ extra1 = <<>> /\ stats = <<0, 0>>
    /\ candidates = <<>> /\ found = <<>> /\ tmp_threshold = 0
    /\ not_found = <<>> /\ scores = <<>> /\ idx = 0

\* sk[k].estimate_stats(samples, threshold), where probes are the samples Rand
\* items the call draws, each with the codes it returns to check
EstimateStats(k, probes, threshold) ==
    LET r == estimate_stats(sk[k], probes, threshold) IN
    /\ ~panicked
    /\ ~rem_panics(sk[k])
    /\ last' = [Call("estimate_stats", k, <<>>, 0, r.err, r.val)
                   EXCEPT !.items = probes, !.threshold = threshold]
    /\ UNCHANGED <<sk, hist, pure, panicked, mainVars>>

\* The calls are made on the first sketch: a sketch that diff_with has produced
\* holds the words of one that toggles alone produce.
StatsNext ==
    \/ \E v \in Items : ToggleItem(1, v)
    \/ \E items \in DecodeSeqs : DecodeItems(1, items)
    \/ \E samples \in 0..MaxSamples :
          \E threshold \in 0..(sk[1].points + 1), probes \in SeqsOf(samples) :
             EstimateStats(1, probes, threshold)

StatsSpec == StatsInit /\ [][StatsNext]_vars

TypeOK ==
    /\ \A k \in 1..2 :
          /\ sk[k].base_length \in Nat /\ sk[k].level \in Nat /\ sk[k].points \in Nat
          /\ \A i \in 1..Len(sk[k].words) : sk[k].words[i] \subseteq 0..(WordBits - 1)
    /\ panicked \in BOOLEAN

(* ------------------- the library on degenerate sketches ----------------- *)
\* new() accepts any unsigned arguments, zero included
DegBaseLengths == {0, 1}
DegPointCounts == {0, 1, 3}

DegInit ==
    /\ \E b \in DegBaseLengths, l \in Levels, p \in DegPointCounts :
          sk = << new(b, l, p), new(b, l, p) >>
    /\ hist = << <<>>, <<>> >>
    /\ pure = << TRUE, TRUE >>
    /\ last = NoCall
    /\ panicked = FALSE
    /\ pc = "lib"
    /\ args = NoArgs
    /\ common = <<>> /\ extra1 = <<>> /\ stats = <<0, 0>>
    /\ candidates = <<>> /\ found = <<>> /\ tmp_threshold = 0
    /\ not_found = <<>> /\ scores = <<>> /\ idx = 0

RemPanic == "attempt to calculate the remainder with a divisor of zero"

\* sk[k].toggle(&v) on a sketch of no words and points >= 1: the first slot's
\* v.get_code(0) % l panics, before any word is written
TogglePanic(k, v) ==
    /\ ~panicked
    /\ rem_panics(sk[k])
    /\ panicked' = TRUE
    /\ last' = Call("toggle", k, v, 0, RemPanic, 0)
    /\ UNCHANGED <<sk, hist, pure, mainVars>>

\* sk[k].check(&v) on such a sketch panics in the same way
CheckPanic(k, v) ==
    /\ ~panicked
    /\ rem_panics(sk[k])
    /\ panicked' = TRUE
    /\ last' = Call("check", k, v, 0, RemPanic, 0)
    /\ UNCHANGED <<sk, hist, pure, mainVars>>

DegNext ==
    \/ \E k \in 1..2, v \in Items : ToggleItem(k, v)
    \/ \E k \in 1..2, v \in Items : TogglePanic(k, v)
    \/ \E k \in 1..2, v \in Items : CheckItem(k, v)
    \/ \E k \in 1..2, v \in Items : CheckPanic(k, v)

DegSpec == DegInit /\ [][DegNext]_vars

(* ================================ main() ================================ *)
\* The items TestItem::new() returns in main(): those above and one with the
\* addresses 64, 65, 66, ..., which in a sketch of one word addresses the bits of
\* the first and in a larger sketch shares bit 65 with the second.
MainItems == Items \cup {MkItem(64, 1)}

MainBaseLengths == {1}
MainLevels == {0, 1}
SampleCounts == {0, 1}

\* line 6-18: the arguments are parsed and the two sketches constructed
MainInit ==
    /\ \E b \in MainBaseLengths, l \in MainLevels, p \in PointCounts,
          c \in 0..MaxCommon, u \in 0..MaxUncommon, n \in SampleCounts :
       \E t \in 0..(p + 1) :
          /\ args = [base_lenth |-> b, level |-> l, point |-> p, common_num |-> c,
                     uncommon_num |-> u, samples_num |-> n, threshold |-> t]
          /\ sk = << new(b, l, p), new(b, l, p) >>
    /\ hist = << <<>>, <<>> >>
    /\ pure = << TRUE, TRUE >>
    /\ last = NoCall
    /\ panicked = FALSE
    /\ pc = "fill"
    /\ common = <<>> /\ extra1 = <<>> /\ stats = <<0, 0>>
    /\ candidates = <<>> /\ found = <<>> /\ tmp_threshold = 0
    /\ not_found = <<>> /\ scores = <<>> /\ idx = 0

\* line 22-27: one turn of the loop over the common items; item is TestItem::new()
CommonIter(item) ==
    /\ ~panicked /\ pc = "fill"
    /\ Len(common) < args.common_num
    /\ sk' = << toggle(sk[1], item), toggle(sk[2], item) >>
    /\ hist' = << Append(hist[1], item), Append(hist[2], item) >>
    /\ common' = Append(common, item)
    /\ UNCHANGED <<pure, last, panicked, pc, args, extra1, stats, peelVars>>

\* line 30-36: one turn of the loop over the items of one sketch only
ExtraIter(item, item2) ==
    /\ ~panicked /\ pc = "fill"
    /\ Len(common) = args.common_num
    /\ Len(extra1) < args.uncommon_num
    /\ sk' = << toggle(sk[1], item), toggle(sk[2], item2) >>
    /\ hist' = << Append(hist[1], item), Append(hist[2], item2) >>
    /\ extra1' = Append(extra1, item)
    /\ UNCHANGED <<pure, last, panicked, pc, args, common, stats, peelVars>>

\* line 38: sketch2.diff_with(&sketch1).expect("No errors")
MainDiff ==
    LET r == diff_with(sk[2], sk[1]) IN
    /\ ~panicked /\ pc = "fill"
    /\ Len(common) = args.common_num
    /\ Len(extra1) = args.uncommon_num
    /\ sk' = [sk EXCEPT ![2] = r.val]
    /\ hist' = IF r.err = "" THEN [hist EXCEPT ![2] = @ \o hist[1]] ELSE hist
    /\ pure' = IF r.err = "" THEN [pure EXCEPT ![2] = FALSE] ELSE pure
    /\ last' = Call("diff_with", 2, <<>>, 0, r.err, 0)
    /\ panicked' = (r.err # "")
    /\ pc' = "stats"
    /\ UNCHANGED <<args, common, extra1, stats, peelVars>>

\* line 39-55: estimate_stats succeeds; the candidates, found and the threshold are set up
MainStats(probes) ==
    LET r == estimate_stats(sk[2], probes, args.threshold) IN
    /\ ~panicked /\ pc = "stats"
    /\ r.err = ""
    /\ stats' = r.val
    /\ candidates' = common \o extra1
    /\ found' = <<>>
    /\ tmp_threshold' = args.point
    /\ pc' = "round"
    /\ UNCHANGED <<libVars, panicked, args, common, extra1, not_found, scores, idx>>

\* line 39: estimate_stats fails and expect("No errors") aborts the process
MainStatsPanic ==
    /\ ~panicked /\ pc = "stats"
    /\ estimate_stats(sk[2], <<>>, args.threshold).err # ""
    /\ panicked' = TRUE
    /\ UNCHANGED <<libVars, mainVars>>

\* line 58-59: a round begins; decode() scores all the candidates at once
RoundStart ==
    /\ ~panicked /\ pc = "round"
    /\ not_found' = <<>>
    /\ scores' = decode(sk[2], candidates)
    /\ idx' = 1
    /\ pc' = "for"
    /\ UNCHANGED <<libVars, panicked, args, common, extra1, stats, candidates, found,
                   tmp_threshold>>

\* the score the for loop pairs with candidates[i]: the one decode() returned
score_live(sc, s, cands, i) == check(s, cands[i])

zip_score(sc, s, cands, i) == sc[i]

\* line 60: score >= tmp_threshold as usize
accepts(score, threshold) == score >= threshold

\* the accepted branch without sketch2.toggle(item)
ForAcceptNoToggle ==
    /\ ~panicked /\ pc = "for"
    /\ idx <= Len(candidates)
    /\ accepts(zip_score(scores, sk[2], candidates, idx), tmp_threshold)
    /\ found' = Append(found, candidates[idx])
    /\ idx' = idx + 1
    /\ UNCHANGED <<libVars, panicked, pc, args, common, extra1, stats, candidates,
                   tmp_threshold, not_found, scores>>

\* line 59-64: the for loop takes a candidate whose score reaches the threshold
ForAccept ==
    /\ ~panicked /\ pc = "for"
    /\ idx <= Len(candidates)
    /\ accepts(zip_score(scores, sk[2], candidates, idx), tmp_threshold)
    /\ found' = Append(found, candidates[idx])
    /\ sk' = [sk EXCEPT ![2] = toggle(sk[2], candidates[idx])]
    /\ hist' = [hist EXCEPT ![2] = Append(@, candidates[idx])]
    /\ idx' = idx + 1
    /\ UNCHANGED <<pure, last, panicked, pc, args, common, extra1, stats, candidates,
                   tmp_threshold, not_found, scores>>

\* line 59-67: the for loop passes over a candidate whose score is below the threshold
ForReject ==
    /\ ~panicked /\ pc = "for"
    /\ idx <= Len(candidates)
    /\ ~accepts(zip_score(scores, sk[2], candidates, idx), tmp_threshold)
    /\ not_found' = Append(not_found, candidates[idx])
    /\ idx' = idx + 1
    /\ UNCHANGED <<libVars, panicked, pc, args, common, extra1, stats, candidates, found,
                   tmp_threshold, scores>>

\* line 73: tmp_threshold > threshold
can_relax_ge(t, floor) == t >= floor

can_relax_early(t, floor) == t > floor + 1

can_relax(t, floor) == t > floor

\* line 74: tmp_threshold -= 1
relax_keep(t) == t

relax(t) == t - 1

\* the round's end without candidates = not_found
RoundShrinkKeep ==
    /\ ~panicked /\ pc = "for"
    /\ idx > Len(candidates)
    /\ ~(Len(not_found) = Len(candidates))
    /\ pc' = "round"
    /\ UNCHANGED <<libVars, panicked, args, common, extra1, stats, candidates, found,
                   tmp_threshold, not_found, scores, idx>>

\* line 72, 82: some candidate was accepted; the next round takes the rest
RoundShrink ==
    /\ ~panicked /\ pc = "for"
    /\ idx > Len(candidates)
    /\ ~(Len(not_found) = Len(candidates))
    /\ candidates' = not_found
    /\ pc' = "round"
    /\ UNCHANGED <<libVars, panicked, args, common, extra1, stats, found, tmp_threshold,
                   not_found, scores, idx>>

\* line 72-74, 82: no candidate was accepted and the threshold is above the floor
RoundRelax ==
    /\ ~panicked /\ pc = "for"
    /\ idx > Len(candidates)
    /\ Len(not_found) = Len(candidates)
    /\ can_relax(tmp_threshold, args.threshold)
    /\ tmp_threshold' = relax(tmp_threshold)
    /\ candidates' = not_found
    /\ pc' = "round"
    /\ UNCHANGED <<libVars, panicked, args, common, extra1, stats, found, not_found,
                   scores, idx>>

\* line 72-77: no candidate was accepted at the floor: break
RoundBreak ==
    /\ ~panicked /\ pc = "for"
    /\ idx > Len(candidates)
    /\ Len(not_found) = Len(candidates)
    /\ ~can_relax(tmp_threshold, args.threshold)
    /\ pc' = "done"
    /\ UNCHANGED <<libVars, panicked, args, common, extra1, stats, peelVars>>

MainNext ==
    \/ \E item \in MainItems : CommonIter(item)
    \/ \E item \in MainItems, item2 \in MainItems : ExtraIter(item, item2)
    \/ MainDiff
    \/ \E probes \in SeqsOf(args.samples_num) : MainStats(probes)
    \/ MainStatsPanic
    \/ RoundStart
    \/ ForAccept
    \/ ForReject
    \/ RoundShrink
    \/ RoundRelax
    \/ RoundBreak

\* main() is one thread that runs to its end: a step that can be taken is taken
MainSpec == MainInit /\ [][MainNext]_vars /\ WF_vars(MainNext)

(* ======================= properties of the library ====================== *)
\* the sketch built from s by toggling the items of the sequence h in order
RECURSIVE toggle_all(_, _)
toggle_all(s, h) == IF h = <<>> THEN s ELSE toggle_all(toggle(s, Head(h)), Tail(h))

\* the empty sketch of the same configuration as s
Emptied(s) == new(s.base_length, s.level, s.points)

Count(h, v) == Cardinality({n \in 1..Len(h) : h[n] = v})

\* the items that occur an odd number of times in h, once each
IsOdd(h, v) == Count(h, v) % 2 = 1
OddItems(h) == SelectSeq(ItemSeq, LAMBDA v : IsOdd(h, v))

\* C1: ToggleItem(item) applied twice in a row to any reachable sketch restores
\* its bit array exactly, and so the CheckItem score of every item.
C1_ToggleTwiceRestores ==
    (last.op = "toggle" /\ last.twice) =>
        LET k == last.self IN
        /\ sk[k].words = last.pre2[k].words
        /\ \A v \in Items : check(sk[k], v) = check(last.pre2[k], v)

\* C1 witness: a sketch that held bits before the two toggles, and holds them again.
C1_Witness ==
    /\ last.op = "toggle" /\ last.twice
    /\ last.pre2[last.self].words # Emptied(sk[last.self]).words
    /\ last.pre[last.self].words # sk[last.self].words
    /\ sk[last.self].words = last.pre2[last.self].words

\* C2: after a successful self.diff_with(other) on two sketches built from empty
\* by the toggle sequences A and B, self holds the bits of the sketch built from
\* empty by toggling A and then B; that is the sketch of the items that occur an
\* odd number of times in A and B together, each toggled once.
C2_DiffIsSymmetricDifference ==
    (/\ last.op = "diff_with" /\ last.err = ""
     /\ last.prepure[1] /\ last.prepure[2]) =>
        LET k == last.self
            A == last.preh[k]
            B == last.preh[Other(k)]
        IN  /\ sk[k].words = toggle_all(Emptied(last.pre[k]), A \o B).words
            /\ sk[k].words = toggle_all(Emptied(last.pre[k]), OddItems(A \o B)).words
            /\ \A v \in Items :
                 (IsOdd(A, v) /\ IsOdd(B, v)) =>
                     sk[k].words = toggle_all(Emptied(last.pre[k]),
                                              SelectSeq(A \o B, LAMBDA w : w # v)).words

\* C2 witness: one item toggled into both sketches has cancelled.
C2_Witness ==
    /\ last.op = "diff_with" /\ last.err = ""
    /\ last.prepure[1] /\ last.prepure[2]
    /\ last.preh[1] # <<>> /\ last.preh[1] = last.preh[2]
    /\ last.pre[last.self].words # Emptied(sk[last.self]).words
    /\ sk[last.self].words = Emptied(sk[last.self]).words

\* the error the order base_length, level, points calls for
DiffError(self, other) ==
    CASE self.base_length # other.base_length -> "Incorrect base length"
      [] self.base_length = other.base_length /\ self.level # other.level -> "Incorrect level"
      [] self.base_length = other.base_length /\ self.level = other.level
           /\ self.points # other.points -> "Incorrect points"
      [] OTHER -> ""

\* C3: DiffWith fails with the error of the first mismatch in the order
\* base_length, level, points, never fails when the three are equal, and leaves
\* self's bit array unchanged when it fails.
C3_DiffErrorPriority ==
    (last.op = "diff_with") =>
        LET self == last.pre[last.self]
            other == last.pre[Other(last.self)]
        IN  /\ last.err = DiffError(self, other)
            /\ last.err # "" => sk[last.self].words = self.words

\* C3 witness: base_length, level and points all differ and the first one decides.
C3_Witness ==
    /\ last.op = "diff_with"
    /\ last.err = "Incorrect base length"
    /\ sk[1].base_length # sk[2].base_length
    /\ sk[1].level # sk[2].level
    /\ sk[1].points # sk[2].points
    /\ hist[last.self] # <<>>

\* C4: LevelDown(new_level) fails with IncorrectLevel exactly when
\* new_level >= level; otherwise it returns a sketch with the same base_length
\* and points, level new_level and base_length * 2^new_level words.
C4_LevelDownDomain ==
    (last.op = "level_down") =>
        LET s == last.pre[last.self]
            r == sk[Other(last.self)]
        IN  /\ (last.err = "Incorrect level") <=> (last.new_level >= s.level)
            /\ last.err \in {"", "Incorrect level"}
            /\ (last.new_level < s.level) =>
                  /\ last.err = ""
                  /\ r.base_length = s.base_length
                  /\ r.points = s.points
                  /\ r.level = last.new_level
                  /\ Len(r.words) = s.base_length * (2 ^ last.new_level)
            /\ (last.new_level + 1 = s.level) => 2 * Len(r.words) = Len(s.words)

\* C4 witness: a sketch with bits set folded one level down.
C4_Witness ==
    /\ last.op = "level_down" /\ last.err = ""
    /\ last.new_level + 1 = last.pre[last.self].level
    /\ hist[last.self] # <<>>
    /\ 2 * Len(sk[Other(last.self)].words) = Len(sk[last.self].words)

\* C5: every sketch has base_length * 2^level words and 64 times as many bits.
C5_WordCount ==
    \A k \in 1..2 :
        /\ Len(sk[k].words) = sk[k].base_length * (2 ^ sk[k].level)
        /\ bits(sk[k]) = 64 * sk[k].base_length * (2 ^ sk[k].level)

\* C5 witness: a folded sketch that a toggle and a DiffWith have since changed.
C5_Witness ==
    /\ last.op = "diff_with" /\ last.err = ""
    /\ ~last.prepure[last.self]
    /\ sk[last.self].words # Emptied(sk[last.self]).words

\* the address of slot i of v in a sketch of l bits
Addr(v, i, l) == get_code(v, i) % l

\* the slots of v whose address an odd number of the first `points` slots share
OddSlots(v, points, l) ==
    {i \in 0..(points - 1) :
        Cardinality({j \in 0..(points - 1) : Addr(v, j, l) = Addr(v, i, l)}) % 2 = 1}

DistinctAddrs(v, points, l) ==
    \A i, j \in 0..(points - 1) : i # j => Addr(v, i, l) # Addr(v, j, l)

\* the receiver of the last call is a constructed sketch with the toggles h
FreshWith(h) == last.prepure[last.self] /\ last.preh[last.self] = h

\* C6 as stated: CheckItem is 0 on a freshly constructed sketch and equals
\* points after the item has been toggled into it once.
C6_CheckAfterToggleIsPoints ==
    (last.op = "check") =>
        /\ FreshWith(<<>>) => last.ret = 0
        /\ FreshWith(<<last.item>>) => last.ret = sk[last.self].points

\* C6 amended: CheckItem is 0 on a freshly constructed sketch; after the item has
\* been toggled into it once it is the number of the item's slots whose address
\* (modulo BitCount) an odd number of its slots share, which is points when the
\* item's addresses are pairwise distinct.
C6_CheckAfterToggleCountsOddSlots ==
    (last.op = "check") =>
        LET s == sk[last.self] IN
        /\ FreshWith(<<>>) => last.ret = 0
        /\ FreshWith(<<last.item>>) =>
              /\ last.ret = Cardinality(OddSlots(last.item, s.points, bits(s)))
              /\ DistinctAddrs(last.item, s.points, bits(s)) => last.ret = s.points

\* C6 witness: an item with pairwise distinct addresses scores points = 3.
C6_Witness ==
    /\ last.op = "check" /\ FreshWith(<<last.item>>)
    /\ sk[last.self].points = 3
    /\ DistinctAddrs(last.item, 3, bits(sk[last.self]))
    /\ last.ret = 3

(* ======================== properties of main() ========================= *)
InLoop == pc \in {"round", "for", "done"}

\* C7: the peeling loop always terminates: once it is entered, break is reached.
C7_PeelingTerminates == [](pc = "round" => <>(pc = "done"))

\* C7 witness: the loop has ended after rounds that accepted, rounds that relaxed
\* the threshold, and with candidates left over.
C7_Witness ==
    /\ pc = "done"
    /\ found # <<>>
    /\ candidates # <<>>
    /\ tmp_threshold < args.point

\* the for loop has passed over all the candidates of the round
RoundOver == pc = "for" /\ idx > Len(candidates)

\* C8: the threshold starts at points; a round that accepted a candidate keeps it
\* and goes on with the candidates left; a round that accepted none lowers it by
\* one if it is above the floor, keeping the candidates, and ends the loop
\* otherwise. So it never rises, never falls below the floor, and is lowered at
\* most points - floor times.
C8_Step ==
    /\ (pc = "stats" /\ pc' = "round") => tmp_threshold' = args.point
    /\ RoundOver =>
         IF Len(not_found) < Len(candidates)
         THEN tmp_threshold' = tmp_threshold /\ candidates' = not_found /\ pc' = "round"
         ELSE IF tmp_threshold > args.threshold
         THEN /\ tmp_threshold' = tmp_threshold - 1
              /\ candidates' = candidates
              /\ pc' = "round"
         ELSE tmp_threshold' = tmp_threshold /\ candidates' = candidates /\ pc' = "done"
    /\ (InLoop /\ ~RoundOver) => tmp_threshold' = tmp_threshold
    /\ InLoop => tmp_threshold' <= tmp_threshold
    /\ (InLoop /\ tmp_threshold' < tmp_threshold) => tmp_threshold' >= args.threshold
    /\ InLoop' =>
         /\ args.point - tmp_threshold' >= 0
         /\ args.point - tmp_threshold' <= args.point - args.threshold

\* C8: every step of main() keeps the threshold discipline C8_Step.
C8_ThresholdDiscipline == [][C8_Step]_vars

\* C8 witness: the threshold has been lowered to a floor above 0 after a round
\* that accepted a candidate.
C8_Witness ==
    /\ pc = "round"
    /\ found # <<>>
    /\ candidates # <<>>
    /\ args.threshold > 0
    /\ tmp_threshold = args.threshold
    /\ tmp_threshold < args.point

\* the for loop is at a candidate and decides on it in this step
ForStep == pc = "for" /\ idx <= Len(candidates) /\ idx' = idx + 1

Accepted == Len(found') = Len(found) + 1

\* the candidates the round has accepted so far: the last entries of found
AcceptedInRound == SubSeq(found, Len(found) - ((idx - 1) - Len(not_found)) + 1, Len(found))

\* sketch2 as it was when the round began: the round's acceptances toggled back
RoundStartSketch == toggle_all(sk[2], AcceptedInRound)

\* C9 as stated: an accepted candidate is appended to found and toggled out of
\* the sketch at once, and a later candidate of the round is accepted or not by
\* its score on the sketch with the round's earlier acceptances cancelled.
C9_Step ==
    ForStep =>
        /\ Accepted <=> check(sk[2], candidates[idx]) >= tmp_threshold
        /\ Accepted => /\ found' = Append(found, candidates[idx])
                       /\ sk'[2] = toggle(sk[2], candidates[idx])

\* C9 as stated: every step of the for loop decides on the cleaned sketch (C9_Step).
C9_ScoredOnCleanedSketch == [][C9_Step]_vars

\* C9 amended: an accepted candidate is appended to found and toggled out of the
\* sketch at once, but the candidates of a round are all scored by one Decode
\* when the round begins: a candidate is accepted or not by its score on the
\* sketch as it was at the start of the round, and the cancellations show in the
\* scores of the next round.
C9_AmendedStep ==
    /\ ForStep =>
        /\ Accepted <=> check(RoundStartSketch, candidates[idx]) >= tmp_threshold
        /\ Accepted => /\ found' = Append(found, candidates[idx])
                       /\ sk'[2] = toggle(sk[2], candidates[idx])
                       /\ not_found' = not_found
        /\ ~Accepted => /\ not_found' = Append(not_found, candidates[idx])
                        /\ found' = found
                        /\ sk' = sk
    /\ (pc = "round" /\ pc' = "for") => scores' = decode(sk[2], candidates) /\ sk' = sk

\* C9 amended: every step of the for loop decides on the score taken when the
\* round began (C9_AmendedStep).
C9_ScoredOnRoundStartSketch == [][C9_AmendedStep]_vars

\* C9 witness: the round has accepted two candidates in a row, the second one
\* with a score below the threshold on the sketch the first had been toggled out of.
C9_Witness ==
    /\ pc = "for" /\ idx >= 3
    /\ Len(AcceptedInRound) >= 2
    /\ candidates[idx - 1] = found[Len(found)]
    /\ candidates[idx - 2] = found[Len(found) - 1]
    /\ check(toggle(sk[2], found[Len(found)]), found[Len(found)]) < tmp_threshold

\* C10: when the loop has ended, every candidate left over scores below the
\* floor, and below the final threshold, on the final sketch.
C10_RemainderBelowFloor ==
    (pc = "done") =>
        \A i \in 1..Len(candidates) :
            /\ check(sk[2], candidates[i]) < args.threshold
            /\ check(sk[2], candidates[i]) < tmp_threshold

\* C10 witness: the loop has ended with a found item and a candidate left over
\* that still has a bit set in the sketch.
C10_Witness ==
    /\ pc = "done"
    /\ found # <<>>
    /\ \E i \in 1..Len(candidates) : check(sk[2], candidates[i]) >= 1
(* ==================== properties of estimate_stats ===================== *)
Stats == last.op = "estimate_stats"
Probed == last.pre[last.self]
ProbeScore(n) == check(Probed, last.items[n])

\* C11: estimate_stats fails with "Incorrect threshold" exactly when the threshold
\* exceeds points; otherwise it scores exactly the samples probes it drew, returns
\* as false positives the number of probes of score >= threshold and as false
\* negatives the number of probes of score > points - threshold, which is the
\* number with points - score < threshold, both within 0..samples; and it never
\* modifies the sketch.
C11_EstimateStats ==
    Stats =>
       LET samples == Len(last.items)
           points == Probed.points
           fpos == {n \in 1..samples : ProbeScore(n) >= last.threshold}
           fneg == {n \in 1..samples : ProbeScore(n) > points - last.threshold}
           fneg2 == {n \in 1..samples : points - ProbeScore(n) < last.threshold}
       IN  /\ (last.err = "Incorrect threshold") <=> (last.threshold > points)
           /\ last.err \in {"", "Incorrect threshold"}
           /\ last.err = "" =>
                 /\ last.ret = << Cardinality(fpos), Cardinality(fneg) >>
                 /\ fneg = fneg2
                 /\ last.ret[1] \in 0..samples /\ last.ret[2] \in 0..samples
           /\ sk = last.pre /\ hist = last.preh

\* estimate_stats at threshold = points on a sketch holding items: the first probe
\* scores points and counts as both, the second scores less and counts as a false
\* negative only
C11_Witness ==
    /\ Stats /\ last.err = "" /\ last.threshold = Probed.points
    /\ Len(last.items) = 2 /\ last.preh[last.self] # <<>>
    /\ last.ret = <<1, 2>>
    /\ ProbeScore(1) = Probed.points /\ ProbeScore(2) \in 1..(Probed.points - 1)

(* ================= properties of degenerate sketches =================== *)
\* C12: on any sketch new() has produced, a zero base_length or zero points
\* included, toggle completes without error or abort for every item.
C12_ToggleNeverAborts ==
    last.op = "toggle" => ~panicked /\ last.err = ""

(* ========================= properties of decode ======================== *)
Decoded == last.op = "decode"

\* C13: decode returns one score per item given, in the order given and without
\* merging repeated items; the k-th score is what check returns for the k-th item
\* on the same sketch, and lies in 0..points.
C13_DecodeIsCheckPerItem ==
    Decoded =>
        /\ DOMAIN last.ret = 1..Len(last.items)
        /\ \A k \in 1..Len(last.items) :
              /\ last.ret[k] = check(last.pre[last.self], last.items[k])
              /\ last.ret[k] \in 0..last.pre[last.self].points

\* decode of two different items: the first, held by the sketch, scores points and
\* the second scores less
C13_Witness ==
    /\ Decoded /\ Len(last.items) = 2
    /\ last.ret[1] = last.pre[last.self].points /\ last.ret[1] > last.ret[2]
    /\ last.items[1] # last.items[2]

(* ===================== what the calls leave alone ====================== *)
Config(s) == << s.base_length, s.level, s.points >>

\* the sketch in slot k is the one that was there before the call: level_down
\* returns a new sketch, which the caller binds to the other slot
Existing(k) == ~(last.op = "level_down" /\ last.err = "" /\ k = Other(last.self))

\* C14: check, decode and level_down (successful or not) leave their receiver as
\* it was; diff_with leaves its operand as it was; the words of an existing sketch
\* change only by toggle and by a successful diff_with, on the receiver; and no
\* call changes the base_length, level or points of an existing sketch.
C14_ReadOnlyFrame ==
    last.op # "none" =>
        /\ last.op \in {"check", "decode", "level_down"} => sk[last.self] = last.pre[last.self]
        /\ last.op = "diff_with" => sk[Other(last.self)] = last.pre[Other(last.self)]
        /\ \A k \in 1..2 :
              Existing(k) =>
                 /\ Config(sk[k]) = Config(last.pre[k])
                 /\ sk[k].words # last.pre[k].words =>
                       /\ k = last.self
                       /\ last.op = "toggle" \/ (last.op = "diff_with" /\ last.err = "")

\* a sketch holding items has been folded: the receiver is as before, the new
\* sketch has fewer words
C14_Witness ==
    /\ last.op = "level_down" /\ last.err = ""
    /\ last.preh[last.self] # <<>>
    /\ last.pre[last.self].words # ZeroWords(Len(last.pre[last.self].words))
    /\ sk[last.self] = last.pre[last.self]
    /\ Len(sk[Other(last.self)].words) < Len(sk[last.self].words)

(* ========================= properties of folding ======================= *)
Folded == last.op = "level_down" /\ last.err = ""

\* the sketch constructed at the lower level and given the receiver's toggles
BuiltLow ==
    toggle_all(new(last.pre[last.self].base_length, last.new_level,
                   last.pre[last.self].points),
               last.preh[last.self])

\* C15: level_down of a sketch built by new(base_length, level, points) and
\* toggles of the items S returns the sketch that new(base_length, new_level,
\* points) and toggles of the same S build: the same words, and so the same
\* check of every item.
C15_FoldCommutesWithToggle ==
    (Folded /\ last.prepure[last.self]) =>
        /\ sk[Other(last.self)].words = BuiltLow.words
        /\ sk[Other(last.self)] = BuiltLow
        /\ \A v \in Items : check(sk[Other(last.self)], v) = check(BuiltLow, v)

\* a fold that moved bits: the receiver held items and had bits in its upper
\* words, and the folded sketch is not empty
C15_Witness ==
    /\ Folded /\ last.prepure[last.self]
    /\ Len(last.preh[last.self]) >= 2
    /\ \E i \in (Len(sk[Other(last.self)].words) + 1)..Len(last.pre[last.self].words) :
          last.pre[last.self].words[i] # {}
    /\ \E i \in 1..Len(sk[Other(last.self)].words) : sk[Other(last.self)].words[i] # {}

(* ===================== what the peeling loop conserves ================= *)
\* line 41-43: the candidates the loop starts with
Original == common \o extra1

\* s is t with some entries left out, the others in the order of t
RECURSIVE IsSubseq(_, _)
IsSubseq(s, t) ==
    IF s = <<>> THEN TRUE
    ELSE IF t = <<>> THEN FALSE
    ELSE IF Head(s) = Head(t) THEN IsSubseq(Tail(s), Tail(t))
    ELSE IsSubseq(s, Tail(t))

\* h holds every occurrence of the original candidates exactly once
Rearranged(h) ==
    /\ Len(h) = Len(Original)
    /\ \A v \in MainItems : Count(h, v) = Count(Original, v)

BetweenRounds == pc \in {"round", "done"}

\* C16 (between rounds): found followed by the candidates is a rearrangement of
\* the original candidates, and the candidates are in their original order
Conserved ==
    /\ Rearranged(found \o candidates)
    /\ IsSubseq(candidates, Original)

\* C16 (each step of the loop): found grows only by appending the candidate the
\* for loop accepts, and the candidate list only loses entries
C16_Step ==
    /\ BetweenRounds' => Conserved'
    /\ (InLoop /\ InLoop') =>
          /\ found' = found \/ (ForStep /\ found' = Append(found, candidates[idx]))
          /\ IsSubseq(candidates', candidates)
          /\ Len(candidates') <= Len(candidates)

\* C16: after every round and at the end of the loop, found followed by the
\* candidates left is a rearrangement of the original candidates, nothing lost and
\* nothing twice; found only grows by appending, the candidates only shrink and
\* keep their original relative order.
C16_PeelingConservesCandidates == [][C16_Step]_vars

\* the second of two different original candidates has been accepted and the
\* first is left
C16_Witness ==
    /\ pc = "round"
    /\ Len(Original) = 2 /\ Original[1] # Original[2]
    /\ found = << Original[2] >>
    /\ candidates = << Original[1] >>

(* ===================== the sketch the loop works on ==================== *)
\* the difference sketch line 38 produced, from the sketches it was given
InitialDiff == diff_with(last.pre[2], last.pre[1]).val

\* C17: after every round and at the end of the loop (and within a round), the
\* decoder's sketch is the initial difference sketch with each entry of found
\* toggled once, so that an item found twice leaves no trace; the decoder has
\* toggled nothing but the entries of found, and sketch1 is as it was.
C17_SketchAccounting ==
    InLoop =>
        /\ last.op = "diff_with" /\ last.self = 2 /\ last.err = ""
        /\ sk[2] = toggle_all(InitialDiff, found)
        /\ hist[2] = (last.preh[2] \o last.preh[1]) \o found
        /\ sk[1] = last.pre[1]
        /\ (\A w \in MainItems : ~IsOdd(found, w)) => sk[2] = InitialDiff

\* the loop has ended with one item found twice: the sketch is the initial
\* difference sketch again, which is not empty
C17_Witness ==
    /\ pc = "done"
    /\ Len(found) = 2 /\ found[1] = found[2]
    /\ sk[2] = InitialDiff
    /\ sk[2] # Emptied(sk[2])

(* ================== the word count of compatible sketches ============== *)
WordsLength == "Incorrect words length"

\* the sketch new() returns for the base_length, level and points of s
Fresh(s) == new(s.base_length, s.level, s.points)

\* C18: diff_with never returns "Incorrect words length": any two sketches that
\* new, toggle, diff_with and level_down have produced and that agree in
\* base_length, level and points have the same number of words, as has the
\* sketch new() returns for them.
C18_WordsLengthUnreachable ==
    /\ last.op = "diff_with" => last.err # WordsLength
    /\ \A j \in 1..2, k \in 1..2 :
          /\ Config(sk[j]) = Config(sk[k]) => Len(sk[j].words) = Len(sk[k].words)
          /\ diff_with(sk[j], sk[k]).err # WordsLength
    /\ \A k \in 1..2 :
          /\ diff_with(sk[k], Fresh(sk[k])).err = ""
          /\ diff_with(Fresh(sk[k]), sk[k]).err = ""

\* diff_with has succeeded on two sketches of several words that hold items,
\* and the other sketch has since been replaced by a fold of the result
C18_Witness ==
    /\ last.op = "level_down" /\ last.err = ""
    /\ ~last.prepure[last.self]
    /\ Len(last.preh[last.self]) >= 2
    /\ Len(sk[Other(last.self)].words) > 1
    /\ sk[Other(last.self)].words # ZeroWords(Len(sk[Other(last.self)].words))

====
